---- MODULE Spec2Model ----
(***************************************************************************)
(* Model of the photo thumbnail background worker                          *)
(* (src/app/background/photo_thumbnail.rs): PhotoThumbnail::update spawns  *)
(* PhotoThumbnail::enrich on the rayon pool; enrich snapshots the          *)
(* repository, filters and reverses it, and fans the pictures out over     *)
(* par_iter().take_any_while(!stop).for_each(..).                          *)
(***************************************************************************)
EXTENDS Integers, Sequences, FiniteSets, TLC

\* Number of pictures in the repository.
MaxItems == 2
\* Number of Start messages the control surface sends.
MaxRuns == 2
\* Number of rayon pool threads running for_each bodies at the same time.
MaxWorkers == 2

Items == 1..MaxItems
Runs == 1..MaxRuns

VARIABLES
    store,  \* the repository: picture_id -> [pathExists, thumb, broken]
    stop,   \* PhotoThumbnail.stop, the shared Arc<AtomicBool>
    run     \* one record per invocation of enrich (see IdleRun)

vars == <<store, stop, run>>

\* A picture row together with what the file system says about its paths.
\* thumb: "none"    thumbnail_path is None
\*        "stale"   thumbnail_path is Some(p) and p does not exist
\*        "present" thumbnail_path is Some(p) and p exists
Picture == [pathExists : BOOLEAN, thumb : {"none", "stale", "present"}, broken : {FALSE}]

----------------------------------------------------------------------------
\* Pure helpers

\* Mutant: the reverse() call is forgotten.
NoReverse(s) == s

Reverse(s) == [k \in 1..Len(s) |-> s[Len(s) + 1 - k]]

\* repo.all(): the rows in ascending insertion order.
RepoAll == [k \in 1..MaxItems |-> k]

\* Mutant: any recorded thumbnail path counts as done, existing or not.
NeedsThumbnailIfNoPath(st, id) == st[id].pathExists /\ st[id].thumb = "none"

\* Mutant: the second filter is forgotten.
NeedsThumbnailIgnoresThumb(st, id) == st[id].pathExists

\* The two .filter() calls of enrich.
NeedsThumbnail(st, id) == st[id].pathExists /\ ~(st[id].thumb = "present")

\* unprocessed after collect() and reverse().
Unprocessed(st) == Reverse(SelectSeq(RepoAll, LAMBDA id : NeedsThumbnail(st, id)))

\* Events sent with sender.output and progress_monitor.emit.
Ev(name, n) == [ev |-> name, n |-> n]

Count(log, name) == Cardinality({k \in DOMAIN log : log[k].ev = name})

\* Repository::add_thumbnail on success: the path is recorded and the file
\* the thumbnailer just wrote exists.
AddThumbnail(st, id) == [st EXCEPT ![id].thumb = "present"]

\* Repository::mark_broken on success.
MarkBroken(st, id) == [st EXCEPT ![id].broken = TRUE]

----------------------------------------------------------------------------
\* State of one run of enrich.
\*   pc          "idle" | "spawned" | "dispatch" | "done" | "failed"
\*   unprocessed the Vec<Picture> of the run
\*   count       unprocessed.len()
\*   taken       take_any_while's internal flag: the predicate has failed
\*   item        per position of unprocessed, the progress of its for_each body
\*   log         the events this run has sent, in order
\*   atStop      positions already dispatched when the stop flag was set
\*   stale       the stop flag was already set when update() spawned the run
IdleRun ==
    [pc |-> "idle", unprocessed |-> <<>>, count |-> 0, taken |-> FALSE,
     item |-> <<>>, log |-> <<>>, atStop |-> {}, stale |-> FALSE]

\*   st    "pending" | "inflight" | "done" | "skipped"
\*   res   result of catch_unwind: "none" | "ok" | "err" | "panic"
\*   out   what happened in the store: "none" | "persisted" | "broken" | "unmarked"
\*   gen   number of thumbnailer.thumbnail calls
\*   adv   number of Advance events emitted by the body
\*   chk   value of the stop flag when take_any_while tested the item
PendingItem ==
    [st |-> "pending", res |-> "none", out |-> "none", gen |-> 0, adv |-> 0,
     chk |-> "none"]

Init ==
    /\ store \in [Items -> Picture]
    /\ stop = FALSE
    /\ run = [r \in Runs |-> IdleRun]

Dispatched(rr) == {k \in DOMAIN rr.item : rr.item[k].st \in {"inflight", "done"}}

InFlight == Cardinality({p \in Runs \X Items :
                            /\ p[2] \in DOMAIN run[p[1]].item
                            /\ run[p[1]].item[p[2]].st = "inflight"})

----------------------------------------------------------------------------
\* PhotoThumbnailInput::Start: update() clones the fields and hands enrich
\* to rayon::spawn; nothing is checked about earlier runs.
Start(r) ==
    /\ run[r].pc = "idle"
    /\ \A q \in Runs : q < r => run[q].pc # "idle"
    /\ run' = [run EXCEPT ![r].pc = "spawned", ![r].stale = stop]
    /\ UNCHANGED <<store, stop>>

\* The user-facing stop action stores true into the shared flag.
Stop ==
    /\ ~stop
    /\ stop' = TRUE
    /\ run' = [r \in Runs |-> [run[r] EXCEPT !.atStop = Dispatched(run[r])]]
    /\ UNCHANGED store

\* Mutant: Started is sent before the repository is read.
EnrichReadFailAfterStarted(r) ==
    /\ run[r].pc = "spawned"
    /\ run' = [run EXCEPT ![r].pc = "failed",
                          ![r].log = Append(@, Ev("Started", 0))]
    /\ UNCHANGED <<store, stop>>

\* repo.all()? returns Err: enrich returns the error, update logs it.
EnrichReadFail(r) ==
    /\ run[r].pc = "spawned"
    /\ run' = [run EXCEPT ![r].pc = "failed"]
    /\ UNCHANGED <<store, stop>>

\* Mutant: no short-circuit, the empty run goes through the whole protocol.
EnrichEmptyNoShortCircuit(r) ==
    /\ run[r].pc = "spawned"
    /\ Len(Unprocessed(store)) = 0
    /\ run' = [run EXCEPT ![r].pc = "done",
                          ![r].log = @ \o <<Ev("Started", 0), Ev("Begin", 0),
                                            Ev("Complete", 0), Ev("Completed", 0)>>]
    /\ UNCHANGED <<store, stop>>

\* count == 0: only Completed(0) is sent.
EnrichEmpty(r) ==
    /\ run[r].pc = "spawned"
    /\ Len(Unprocessed(store)) = 0
    /\ run' = [run EXCEPT ![r].pc = "done",
                          ![r].log = Append(@, Ev("Completed", 0))]
    /\ UNCHANGED <<store, stop>>

\* Mutant: the Started output is forgotten.
StartEventsNoStarted(n) == <<Ev("Begin", n)>>

\* Mutant: the progress Start event is sent before the Started output.
StartEventsBeginFirst(n) == <<Ev("Begin", n), Ev("Started", 0)>>

\* The events enrich sends before the parallel loop, in the order of the code.
StartEvents(n) == <<Ev("Started", 0), Ev("Begin", n)>>

\* count > 0: Started, then ProgressMonitorInput::Start(task, count).
EnrichStart(r) ==
    LET u == Unprocessed(store) IN
    /\ run[r].pc = "spawned"
    /\ Len(u) > 0
    /\ run' = [run EXCEPT ![r].pc = "dispatch",
                          ![r].unprocessed = u,
                          ![r].count = Len(u),
                          ![r].item = [k \in 1..Len(u) |-> PendingItem],
                          ![r].log = @ \o StartEvents(Len(u))]
    /\ UNCHANGED <<store, stop>>

\* Mutant: the predicate does not look at the stop flag.
TakenIgnoresStop(rr, flag) == ~rr.taken

\* take_any_while(|_| !stop.load(Relaxed)): the item is taken when the
\* predicate holds and no earlier predicate call has failed.
Taken(rr, flag) == ~rr.taken /\ ~flag

\* A pool thread reaches item k: the predicate is evaluated; the item is
\* either handed to the for_each body or dropped (and the iterator is full).
Check(r, k) ==
    /\ run[r].pc = "dispatch"
    /\ k \in DOMAIN run[r].item
    /\ run[r].item[k].st = "pending"
    /\ InFlight < MaxWorkers
    /\ run' = [run EXCEPT
                 ![r].item[k].chk = IF stop THEN "set" ELSE "clear",
                 ![r].item[k].st = IF Taken(run[r], stop) THEN "inflight" ELSE "skipped",
                 ![r].taken = IF Taken(run[r], stop) THEN @ ELSE TRUE]
    /\ UNCHANGED <<store, stop>>

\* Outcomes of the closure given to catch_unwind.
\*   "ok"          thumbnail() and add_thumbnail() both return Ok
\*   "genErr"      thumbnail() returns Err
\*   "addErr"      thumbnail() returns Ok, add_thumbnail() returns Err
\*   "genPanic"    thumbnail() panics
\*   "addPanic"    add_thumbnail() panics
Outcomes == {"ok", "genErr", "addErr", "genPanic", "addPanic"}

\* The value catch_unwind returns: Ok(Ok), Ok(Err) or Err.
CatchUnwind(o) ==
    CASE o = "ok" -> "ok"
      [] o \in {"genErr", "addErr"} -> "err"
      [] OTHER -> "panic"

\* Mutant: only the panic is handled, Ok(Err) is taken for a success.
MarksBrokenOnPanicOnly(res) == res = "panic"

\* Mutant: only Ok(Err) is handled, a panic is dropped silently.
MarksBrokenOnErrOnly(res) == res = "err"

\* Which results make the body call mark_broken.
CallsMarkBroken(res) == res \in {"err", "panic"}

\* Mutant: Advance is emitted for successful items only.
AdvanceOnSuccessOnly(res) == res = "ok"

\* Mutant: Advance is not emitted on the panic branch.
AdvanceUnlessPanic(res) == res # "panic"

\* Whether the body emits Advance after a given catch_unwind result.
EmitsAdvance(res) == TRUE

\* Mutant: the body looks at the stop flag again when generation returns and
\* gives the item up if a stop was requested meanwhile.
BodyChecksStop(r, k, o, markOk) ==
    LET id == run[r].unprocessed[k]
        res == CatchUnwind(o)
    IN
    /\ run[r].pc = "dispatch"
    /\ k \in DOMAIN run[r].item
    /\ run[r].item[k].st = "inflight"
    /\ (res = "ok" => markOk)
    /\ IF stop
       THEN /\ store' = store
            /\ run' = [run EXCEPT ![r].item[k].st = "skipped",
                                  ![r].item[k].gen = @ + 1]
       ELSE /\ store' = IF res = "ok" THEN AddThumbnail(store, id)
                        ELSE IF markOk THEN MarkBroken(store, id)
                        ELSE store
            /\ run' = [run EXCEPT
                         ![r].item[k].st = "done",
                         ![r].item[k].res = res,
                         ![r].item[k].gen = @ + 1,
                         ![r].item[k].out = IF res = "ok" THEN "persisted"
                                            ELSE IF markOk THEN "broken" ELSE "unmarked",
                         ![r].item[k].adv = @ + 1,
                         ![r].log = Append(@, Ev("Advance", 0))]
    /\ UNCHANGED stop

\* Mutant: the body returns early, before the Advance, when mark_broken
\* returns an error.
BodyReturnsOnMarkError(r, k, o, markOk) ==
    LET id == run[r].unprocessed[k]
        res == CatchUnwind(o)
        early == res # "ok" /\ ~markOk
    IN
    /\ run[r].pc = "dispatch"
    /\ k \in DOMAIN run[r].item
    /\ run[r].item[k].st = "inflight"
    /\ (res = "ok" => markOk)
    /\ store' = IF res = "ok" THEN AddThumbnail(store, id)
                ELSE IF markOk THEN MarkBroken(store, id)
                ELSE store
    /\ run' = [run EXCEPT
                 ![r].item[k].st = "done",
                 ![r].item[k].res = res,
                 ![r].item[k].gen = @ + 1,
                 ![r].item[k].out = IF res = "ok" THEN "persisted"
                                    ELSE IF markOk THEN "broken" ELSE "unmarked",
                 ![r].item[k].adv = @ + (IF early THEN 0 ELSE 1),
                 ![r].log = IF early THEN @ ELSE Append(@, Ev("Advance", 0))]
    /\ UNCHANGED stop

\* Mutant: an item whose generation returned an error is tried once more
\* instead of being marked broken.
BodyRetriesOnErr(r, k, o, markOk) ==
    LET id == run[r].unprocessed[k]
        res == CatchUnwind(o)
        retry == res = "err" /\ run[r].item[k].gen = 0
    IN
    /\ run[r].pc = "dispatch"
    /\ k \in DOMAIN run[r].item
    /\ run[r].item[k].st = "inflight"
    /\ (res = "ok" => markOk)
    /\ store' = IF retry THEN store
                ELSE IF res = "ok" THEN AddThumbnail(store, id)
                ELSE IF markOk THEN MarkBroken(store, id)
                ELSE store
    /\ run' = IF retry
              THEN [run EXCEPT ![r].item[k].gen = @ + 1]
              ELSE [run EXCEPT
                      ![r].item[k].st = "done",
                      ![r].item[k].res = res,
                      ![r].item[k].gen = @ + 1,
                      ![r].item[k].out = IF res = "ok" THEN "persisted"
                                         ELSE IF markOk THEN "broken" ELSE "unmarked",
                      ![r].item[k].adv = @ + 1,
                      ![r].log = Append(@, Ev("Advance", 0))]
    /\ UNCHANGED stop

\* The for_each body on item k: generate and persist inside catch_unwind; on
\* Ok(Err) or Err call mark_broken and ignore its result; then emit Advance.
\* o is the outcome of the closure, markOk whether mark_broken returns Ok.
Body(r, k, o, markOk) ==
    LET id == run[r].unprocessed[k]
        res == CatchUnwind(o)
    IN
    /\ run[r].pc = "dispatch"
    /\ k \in DOMAIN run[r].item
    /\ run[r].item[k].st = "inflight"
    /\ (res = "ok" => markOk)
    /\ store' = IF res = "ok" THEN AddThumbnail(store, id)
                ELSE IF CallsMarkBroken(res) /\ markOk THEN MarkBroken(store, id)
                ELSE store
    /\ run' = [run EXCEPT
                 ![r].item[k].st = "done",
                 ![r].item[k].res = res,
                 ![r].item[k].gen = @ + 1,
                 ![r].item[k].out = IF res = "ok" THEN "persisted"
                                    ELSE IF ~CallsMarkBroken(res) THEN "none"
                                    ELSE IF markOk THEN "broken" ELSE "unmarked",
                 ![r].item[k].adv = @ + (IF EmitsAdvance(res) THEN 1 ELSE 0),
                 ![r].log = IF EmitsAdvance(res) THEN Append(@, Ev("Advance", 0)) ELSE @]
    /\ UNCHANGED stop

\* Mutant: the Completed output is sent before the progress Complete event.
FinishEventsCompletedFirst(n) == <<Ev("Completed", n), Ev("Complete", 0)>>

\* The events enrich sends after for_each has returned.
FinishEvents(n) == <<Ev("Complete", 0), Ev("Completed", n)>>

\* Mutant: Completed carries the number of items advanced, not count.
EnrichFinishCountsAdvances(r) ==
    /\ run[r].pc = "dispatch"
    /\ \A k \in DOMAIN run[r].item : run[r].item[k].st \in {"done", "skipped"}
    /\ run' = [run EXCEPT ![r].pc = "done",
                          ![r].log = @ \o FinishEvents(Count(run[r].log, "Advance"))]
    /\ UNCHANGED <<store, stop>>

\* Mutant: the run waits until every item of the WorkSet has been processed.
EnrichFinishWaitsForAll(r) ==
    /\ run[r].pc = "dispatch"
    /\ \A k \in DOMAIN run[r].item : run[r].item[k].st = "done"
    /\ run' = [run EXCEPT ![r].pc = "done",
                          ![r].log = @ \o FinishEvents(run[r].count)]
    /\ UNCHANGED <<store, stop>>

\* for_each returns once every item was processed or dropped.
EnrichFinish(r) ==
    /\ run[r].pc = "dispatch"
    /\ \A k \in DOMAIN run[r].item : run[r].item[k].st \in {"done", "skipped"}
    /\ run' = [run EXCEPT ![r].pc = "done",
                          ![r].log = @ \o FinishEvents(run[r].count)]
    /\ UNCHANGED <<store, stop>>

Next ==
    \/ \E r \in Runs : Start(r)
    \/ Stop
    \/ \E r \in Runs : EnrichReadFail(r)
    \/ \E r \in Runs : EnrichEmpty(r)
    \/ \E r \in Runs : EnrichStart(r)
    \/ \E r \in Runs, k \in Items : Check(r, k)
    \/ \E r \in Runs, k \in Items, o \in Outcomes, m \in BOOLEAN : Body(r, k, o, m)
    \/ \E r \in Runs : EnrichFinish(r)

Spec == Init /\ [][Next]_vars

\* A step of a rayon pool thread on behalf of some run.
PoolStep ==
    \/ \E r \in Runs : EnrichReadFail(r) \/ EnrichEmpty(r) \/ EnrichStart(r)
    \/ \E r \in Runs, k \in Items : Check(r, k)
    \/ \E r \in Runs, k \in Items, o \in Outcomes, m \in BOOLEAN : Body(r, k, o, m)
    \/ \E r \in Runs : EnrichFinish(r)

\* The pool keeps running the jobs it was given, and every thumbnailer and
\* repository call returns or panics.
FairSpec == Spec /\ WF_vars(PoolStep)

TypeOK ==
    /\ store \in [Items -> [pathExists : BOOLEAN, thumb : {"none", "stale", "present"},
                            broken : BOOLEAN]]
    /\ stop \in BOOLEAN
    /\ \A r \in Runs : run[r].pc \in {"idle", "spawned", "dispatch", "done", "failed"}


----------------------------------------------------------------------------
\* Vocabulary of the properties

ItemId(r, k) == run[r].unprocessed[k]
Positions(r) == DOMAIN run[r].item
Finished(r) == run[r].pc = "done"
NonEmpty(r) == Len(run[r].unprocessed) > 0
Advances(r) == Count(run[r].log, "Advance")
LastEvent(r) == run[r].log[Len(run[r].log)]
Where(r, name) == {i \in DOMAIN run[r].log : run[r].log[i].ev = name}
\* mark_broken was called for the item (whatever it returned)
MarkBrokenCalled(r, k) == run[r].item[k].out \in {"broken", "unmarked"}

----------------------------------------------------------------------------
\* C1 (as amended): in a finished run with no stop request, if item k's
\* processing panicked then every other item was processed (generator called
\* once, Advance emitted), every other item that succeeded has its thumbnail
\* recorded in the store, mark_broken was called for item k and item k is
\* marked broken when that call succeeded, and the run ended with
\* Completed(count).
C1_FaultIsolation ==
    \A r \in Runs : (Finished(r) /\ ~stop) =>
        \A k \in Positions(r) : run[r].item[k].res = "panic" =>
            /\ \A j \in Positions(r) \ {k} :
                  /\ run[r].item[j].st = "done"
                  /\ run[r].item[j].gen = 1
                  /\ run[r].item[j].res = "ok" => store[ItemId(r, j)].thumb = "present"
            /\ MarkBrokenCalled(r, k)
            /\ run[r].item[k].out = "broken" => store[ItemId(r, k)].broken
            /\ LastEvent(r) = Ev("Completed", run[r].count)

\* C1 as stated: the panicked item always ends marked broken.
C1_Original ==
    \A r \in Runs : (Finished(r) /\ ~stop) =>
        \A k \in Positions(r) : run[r].item[k].res = "panic" =>
            /\ \A j \in Positions(r) \ {k} :
                  /\ run[r].item[j].st = "done"
                  /\ run[r].item[j].res = "ok" => store[ItemId(r, j)].thumb = "present"
            /\ store[ItemId(r, k)].broken
            /\ LastEvent(r) = Ev("Completed", run[r].count)

C1_Witness ==
    \E r \in Runs : /\ Finished(r) /\ ~stop
                    /\ \E k, j \in Positions(r) :
                          /\ k # j
                          /\ run[r].item[k].res = "panic"
                          /\ store[ItemId(r, k)].broken
                          /\ run[r].item[j].res = "ok"
                          /\ store[ItemId(r, j)].thumb = "present"

\* C2: a run on a non-empty WorkSet sends exactly one Started, before every
\* Advance, and exactly one Completed(count), after the last Advance, with
\* count the size of the WorkSet.
C2_StartedCompletedOnce ==
    \A r \in Runs :
        /\ Cardinality(Where(r, "Started")) <= 1
        /\ Cardinality(Where(r, "Completed")) <= 1
        /\ \A i \in Where(r, "Advance") : \E j \in Where(r, "Started") : j < i
        /\ \A i \in Where(r, "Completed") : \A j \in Where(r, "Advance") : j < i
        /\ (run[r].pc = "dispatch") => Cardinality(Where(r, "Started")) = 1
        /\ (Finished(r) /\ NonEmpty(r)) =>
              /\ Cardinality(Where(r, "Started")) = 1
              /\ Cardinality(Where(r, "Completed")) = 1
              /\ LastEvent(r) = Ev("Completed", Len(run[r].unprocessed))

C2_Witness ==
    \E r \in Runs : /\ Finished(r)
                    /\ Len(run[r].unprocessed) = 2
                    /\ Advances(r) = 2
                    /\ Cardinality(Where(r, "Started")) = 1

\* C3: a run whose WorkSet is empty sends exactly one Completed(0) and no
\* other event, and the step that does so leaves the store untouched.
C3_EmptyWorkSet ==
    /\ [](\A r \in Runs : (Finished(r) /\ ~NonEmpty(r)) =>
                             run[r].log = <<Ev("Completed", 0)>>)
    /\ [][\A r \in Runs : (run[r].pc = "spawned" /\ run'[r].pc = "done") =>
                             (store' = store /\ Unprocessed(store) = <<>>)]_vars

C3_Witness ==
    \E r \in Runs : /\ Finished(r)
                    /\ ~NonEmpty(r)
                    /\ run[r].log = <<Ev("Completed", 0)>>
                    /\ \E id \in Items : store[id].pathExists

\* C4 (as amended): if the stop flag was set after m of the n items were
\* dispatched, those m items are never skipped, and when the run has finished
\* it has emitted between m and n Advance events and each of the m items ran
\* to its outcome (thumbnail persisted, or mark_broken called) and emitted
\* its Advance.
C4_CancellationBounds ==
    \A r \in Runs : stop =>
        /\ \A k \in run[r].atStop : run[r].item[k].st \in {"inflight", "done"}
        /\ Finished(r) =>
              /\ Cardinality(run[r].atStop) <= Advances(r)
              /\ Advances(r) <= run[r].count
              /\ \A k \in run[r].atStop :
                    /\ run[r].item[k].st = "done"
                    /\ run[r].item[k].adv = 1
                    /\ run[r].item[k].out = "persisted" \/ MarkBrokenCalled(r, k)

\* C4 as stated: the outcome of each such item is "persisted" or "marked broken".
C4_Original ==
    \A r \in Runs : (stop /\ Finished(r)) =>
        /\ Cardinality(run[r].atStop) <= Advances(r)
        /\ Advances(r) <= run[r].count
        /\ \A k \in run[r].atStop :
              /\ run[r].item[k].adv = 1
              /\ \/ store[ItemId(r, k)].thumb = "present"
                 \/ store[ItemId(r, k)].broken

C4_Witness ==
    \E r \in Runs : /\ stop /\ Finished(r)
                    /\ run[r].count = 2
                    /\ Cardinality(run[r].atStop) = 1
                    /\ Advances(r) = 1
                    /\ \E k \in Positions(r) : run[r].item[k].st = "skipped"

\* C5: an item whose take_any_while test ran with the stop flag set is not
\* dispatched: no generator call, no store call and no Advance for it.
C5_NoDispatchAfterStop ==
    \A r \in Runs : \A k \in Positions(r) :
        run[r].item[k].chk = "set" =>
            /\ run[r].item[k].st = "skipped"
            /\ run[r].item[k].gen = 0
            /\ run[r].item[k].out = "none"
            /\ run[r].item[k].adv = 0

C5_Witness ==
    \E r \in Runs : \E k, j \in Positions(r) :
        /\ run[r].item[k].chk = "set"
        /\ run[r].item[k].st = "skipped"
        /\ run[r].item[j].chk = "clear"
        /\ run[r].item[j].st = "done"

\* C6: the Advance events of a run are exactly one per dispatched item whose
\* body has returned; a skipped item has none, and a finished run has emitted
\* as many Advance events as it dispatched items.
C6_AdvancePerDispatched ==
    \A r \in Runs :
        /\ Advances(r) = Cardinality({k \in Positions(r) : run[r].item[k].st = "done"})
        /\ \A k \in Positions(r) :
              /\ run[r].item[k].st = "done" => run[r].item[k].adv = 1
              /\ run[r].item[k].st # "done" => run[r].item[k].adv = 0
        /\ Finished(r) => Advances(r) = Cardinality(Dispatched(run[r]))

C6_Witness ==
    \E r \in Runs : /\ Finished(r)
                    /\ Advances(r) = 1
                    /\ \E k, j \in Positions(r) : /\ run[r].item[k].st = "skipped"
                                                 /\ run[r].item[j].st = "done"
                                                 /\ run[r].item[j].res # "ok"

\* C7: with no stop request, when Complete is emitted the Advance events
\* before it are as many as the total announced by Begin, whatever the
\* outcomes of the items.
C7_CounterReachesTotal ==
    \A r \in Runs : ~stop =>
        \A c \in Where(r, "Complete") : \A b \in Where(r, "Begin") :
            Cardinality({i \in Where(r, "Advance") : i < c}) = run[r].log[b].n

C7_Witness ==
    \E r \in Runs : /\ ~stop
                    /\ Where(r, "Complete") # {}
                    /\ Advances(r) = 2
                    /\ \E k, j \in Positions(r) : /\ run[r].item[k].res = "err"
                                                 /\ run[r].item[j].res = "panic"

\* C8 as stated: at most one run is in progress (spawned and not yet
\* finished or failed) at any time.
C8_OneRunAtATime ==
    Cardinality({r \in Runs : run[r].pc \in {"spawned", "dispatch"}}) <= 1

\* C9 as stated: a run spawned after an earlier stop request, with no stop
\* requested during it, dispatches every item of its WorkSet.
C9_FreshFlagPerRun ==
    \A r \in Runs : (run[r].stale /\ Finished(r)) =>
        \A k \in Positions(r) : run[r].item[k].st = "done"

\* C10 (as amended): on Start with a non-empty WorkSet the Started output is
\* sent first and the Begin(task, N) progress event right after it, with N
\* the size of the WorkSet.
C10_StartedThenBegin ==
    \A r \in Runs : run[r].pc \in {"dispatch", "done"} /\ NonEmpty(r) =>
        /\ Len(run[r].log) >= 2
        /\ run[r].log[1] = Ev("Started", 0)
        /\ run[r].log[2] = Ev("Begin", Len(run[r].unprocessed))

\* C10 as stated: Begin is emitted before Started.
C10_Original ==
    \A r \in Runs : \A s \in Where(r, "Started") : \E b \in Where(r, "Begin") : b < s

C10_Witness ==
    \E r \in Runs : /\ run[r].pc = "dispatch"
                    /\ run[r].log = <<Ev("Started", 0), Ev("Begin", 2)>>

\* C11: per run, the progress events are Begin(N), then only Advance events,
\* then exactly one Complete; no Advance precedes Begin or follows Complete,
\* and Complete precedes the Completed(count) output.
SinkEvents(r) == SelectSeq(run[r].log, LAMBDA e : e.ev \in {"Begin", "Advance", "Complete"})

C11_ProgressSequence ==
    \A r \in Runs :
        /\ Cardinality(Where(r, "Begin")) <= 1
        /\ Cardinality(Where(r, "Complete")) <= 1
        /\ \A a \in Where(r, "Advance") :
              /\ \E b \in Where(r, "Begin") : b < a
              /\ \A c \in Where(r, "Complete") : a < c
        /\ \A c \in Where(r, "Complete") : \A d \in Where(r, "Completed") : c < d
        /\ (Finished(r) /\ NonEmpty(r)) =>
              LET sink == SinkEvents(r) IN
              /\ Len(sink) >= 2
              /\ sink[1] = Ev("Begin", Len(run[r].unprocessed))
              /\ sink[Len(sink)] = Ev("Complete", 0)
              /\ \A i \in 2..(Len(sink) - 1) : sink[i] = Ev("Advance", 0)
              /\ Where(r, "Completed") # {}

C11_Witness ==
    \E r \in Runs :
        run[r].log = <<Ev("Started", 0), Ev("Begin", 2), Ev("Advance", 0),
                       Ev("Advance", 0), Ev("Complete", 0), Ev("Completed", 2)>>

\* C12: a run whose repository read fails has sent no event and touched no
\* item, the step that fails leaves the store unchanged, and the run ends
\* failed (enrich returned Err).
C12_ReadFailureIsSilent ==
    /\ [](\A r \in Runs : run[r].pc = "failed" =>
             /\ run[r].log = <<>>
             /\ run[r].item = <<>>
             /\ run[r].unprocessed = <<>>)
    /\ [][\A r \in Runs : (run[r].pc # "failed" /\ run'[r].pc = "failed") =>
             (run[r].pc = "spawned" /\ store' = store)]_vars

C12_Witness ==
    \E r \in Runs : /\ run[r].pc = "failed"
                    /\ run[r].log = <<>>
                    /\ \E id \in Items : NeedsThumbnail(store, id)

\* C13 (as amended): for a dispatched item, if generation or persistence
\* returned an ordinary error then mark_broken was called for it (and the
\* item is marked broken when that call succeeded) and the run goes on; if
\* both succeeded the thumbnail path is recorded and the body did not call
\* mark_broken.
C13_OrdinaryFailure ==
    \A r \in Runs :
        /\ \A k \in Positions(r) :
              /\ run[r].item[k].res = "err" =>
                    /\ MarkBrokenCalled(r, k)
                    /\ run[r].item[k].out = "broken" => store[ItemId(r, k)].broken
                    /\ run[r].item[k].adv = 1
              /\ run[r].item[k].res = "ok" =>
                    /\ run[r].item[k].out = "persisted"
                    /\ store[ItemId(r, k)].thumb = "present"
        /\ (Finished(r) /\ ~stop) => \A k \in Positions(r) : run[r].item[k].st = "done"

\* C13 as stated: an item whose generation or persistence failed is marked broken.
C13_Original ==
    \A r \in Runs : \A k \in Positions(r) :
        /\ run[r].item[k].res = "err" => store[ItemId(r, k)].broken
        /\ run[r].item[k].res = "ok" =>
              /\ run[r].item[k].out = "persisted"
              /\ store[ItemId(r, k)].thumb = "present"

C13_Witness ==
    \E r \in Runs : /\ Finished(r)
                    /\ LastEvent(r) = Ev("Completed", 2)
                    /\ Advances(r) = 2
                    /\ \E k, j \in Positions(r) :
                          /\ run[r].item[k].res = "err"
                          /\ store[ItemId(r, k)].broken
                          /\ store[ItemId(r, k)].thumb # "present"
                          /\ run[r].item[j].res = "ok"
                          /\ store[ItemId(r, j)].thumb = "present"
                          /\ ~store[ItemId(r, j)].broken

\* C14: an item whose mark_broken call failed has still emitted its Advance,
\* and a run with such an item and no stop request still processes every
\* item and ends with Completed(count).
C14_MarkBrokenFailureSwallowed ==
    \A r \in Runs :
        /\ \A k \in Positions(r) :
              run[r].item[k].out = "unmarked" =>
                  /\ run[r].item[k].st = "done"
                  /\ run[r].item[k].adv = 1
        /\ (Finished(r) /\ \E k \in Positions(r) : run[r].item[k].out = "unmarked") =>
              /\ LastEvent(r) = Ev("Completed", run[r].count)
              /\ Advances(r) = Cardinality(Dispatched(run[r]))
              /\ ~stop => \A j \in Positions(r) : run[r].item[j].st = "done"

C14_Witness ==
    \E r \in Runs : /\ Finished(r) /\ ~stop
                    /\ Advances(r) = 2
                    /\ \E k, j \in Positions(r) :
                          /\ run[r].item[k].out = "unmarked"
                          /\ ~store[ItemId(r, k)].broken
                          /\ run[r].item[j].out = "persisted"

\* C15: within a run the generator is called at most once per item, never
\* for an item that was not dispatched, and exactly once per item when the
\* run finishes without a stop request.
C15_GeneratedOnce ==
    \A r \in Runs :
        /\ \A k \in Positions(r) :
              /\ run[r].item[k].gen <= 1
              /\ run[r].item[k].st = "done" => run[r].item[k].gen = 1
              /\ run[r].item[k].st \in {"pending", "skipped"} => run[r].item[k].gen = 0
        /\ (Finished(r) /\ ~stop) => \A k \in Positions(r) : run[r].item[k].gen = 1

C15_Witness ==
    \E r \in Runs : \E k, j \in Positions(r) :
        /\ ~stop
        /\ run[r].item[k].st = "inflight"
        /\ run[r].item[j].st = "done"
        /\ run[r].item[j].gen = 1

\* The step in which run r reads the repository successfully.
ReadsCatalog(r) == run[r].pc = "spawned" /\ run'[r].pc \in {"dispatch", "done"}

\* The selection rule in the words of the data model.
Eligible(id) ==
    /\ store[id].pathExists
    /\ (store[id].thumb = "none" \/ store[id].thumb = "stale")

\* C16: when a run reads the repository, a picture is in its WorkSet iff its
\* source file exists and it has no thumbnail path or the path does not exist.
C16_Selection ==
    [][\A r \in Runs : ReadsCatalog(r) =>
          \A id \in Items :
              (\E k \in DOMAIN run'[r].unprocessed : run'[r].unprocessed[k] = id)
                  <=> Eligible(id)]_vars

C16_Witness ==
    \E r \in Runs :
        /\ run[r].pc = "dispatch"
        /\ \A q \in Runs : \A k \in Positions(q) : run[q].item[k].st = "pending"
        /\ Len(run[r].unprocessed) = 1
        /\ store[run[r].unprocessed[1]].thumb = "stale"
        /\ \E id \in Items : ~Eligible(id)

\* C17: the WorkSet lists the selected pictures newest first: ids strictly
\* descending, each selected picture exactly once.
C17_NewestFirst ==
    /\ [](\A r \in Runs : \A i, j \in DOMAIN run[r].unprocessed :
             i < j => run[r].unprocessed[i] > run[r].unprocessed[j])
    /\ [][\A r \in Runs : ReadsCatalog(r) =>
             /\ {run'[r].unprocessed[k] : k \in DOMAIN run'[r].unprocessed}
                   = {id \in Items : NeedsThumbnail(store, id)}
             /\ Len(run'[r].unprocessed)
                   = Cardinality({id \in Items : NeedsThumbnail(store, id)})]_vars

C17_Witness ==
    \E r \in Runs : /\ run[r].pc = "dispatch"
                    /\ run[r].unprocessed = <<2, 1>>

\* A finished run in which every item was generated and persisted.
FullySuccessful(q) ==
    /\ Finished(q)
    /\ NonEmpty(q)
    /\ \A k \in Positions(q) : run[q].item[k].res = "ok"

\* C18: a run that reads the repository after a fully successful run has
\* finished finds nothing to do and sends only Completed(0).
C18_Idempotence ==
    [][\A r \in Runs :
          (ReadsCatalog(r) /\ \E q \in Runs \ {r} : FullySuccessful(q)) =>
              /\ run'[r].pc = "done"
              /\ run'[r].log = <<Ev("Completed", 0)>>]_vars

C18_Witness ==
    \E q, r \in Runs :
        /\ q < r
        /\ FullySuccessful(q)
        /\ Len(run[q].unprocessed) = 2
        /\ Finished(r)
        /\ run[r].log = <<Ev("Completed", 0)>>

\* C19: Completed carries the size of the WorkSet computed at the start of
\* the run, whatever was dispatched; a run spawned with the stop flag already
\* set on a WorkSet of size N sends Started, Begin(N), Complete, Completed(N),
\* no Advance, and calls neither the generator nor the store.
C19_CountIsWorkSetSize ==
    \A r \in Runs : (Finished(r) /\ NonEmpty(r)) =>
        LET n == Len(run[r].unprocessed) IN
        /\ \A d \in Where(r, "Completed") : run[r].log[d].n = n
        /\ Where(r, "Completed") # {}
        /\ run[r].stale =>
              /\ run[r].log = <<Ev("Started", 0), Ev("Begin", n),
                                Ev("Complete", 0), Ev("Completed", n)>>
              /\ \A k \in Positions(r) : /\ run[r].item[k].gen = 0
                                         /\ run[r].item[k].out = "none"

C19_Witness ==
    \E r \in Runs : /\ run[r].stale
                    /\ Finished(r)
                    /\ run[r].log = <<Ev("Started", 0), Ev("Begin", 2),
                                      Ev("Complete", 0), Ev("Completed", 2)>>

\* C20: under FairSpec every spawned run ends (Completed sent, or the read
\* failed), every run whose read succeeded ends with Completed, and once the
\* stop flag is set no run dispatches a further item.
C20_Termination ==
    /\ \A r \in Runs : (run[r].pc = "spawned") ~> (run[r].pc \in {"done", "failed"})
    /\ \A r \in Runs : (run[r].pc = "dispatch") ~> Finished(r)
    /\ [][stop => \A r \in Runs : Dispatched(run'[r]) \subseteq Dispatched(run[r])]_vars

C20_Witness ==
    \E r \in Runs : /\ stop
                    /\ Finished(r)
                    /\ ~run[r].stale
                    /\ \E k \in run[r].atStop : run[r].item[k].res = "panic"
                    /\ \E j \in Positions(r) : run[r].item[j].st = "skipped"

====
